---- MODULE Spec2Model ----
(***************************************************************************)
(* A model of measurements/api/measurements.py: the listing handler        *)
(* list_measurements (filter normalisation, the two bounded per-store      *)
(* queries, the full outer join, deduplication and pagination metadata)    *)
(* and the payload handler get_measurement (identifier parsing, locator    *)
(* lookup, range fetch, decompression and validation of the frame).        *)
(*                                                                         *)
(* The model starts where the handler prepares its query parameters        *)
(* ("## Prepare query parameters"); the User-Agent stub answered to        *)
(* okhttp clients before that point never reaches the query engine.        *)
(***************************************************************************)
EXTENDS Integers, Sequences, FiniteSets, TLC

VARIABLES
    fastpath,      \* the rows of the fastpath table
    measurement,   \* the rows of measurement JOIN report (canonical store)
    call,          \* the arguments of the last list_measurements call
    plan,          \* the normalised filters and the WHERE lists it built
    resp,          \* the response (or the error) of the last call
    gcall,         \* the arguments of the last get_measurement call
    gresp          \* its response (or error), with the requests it issued

vars == <<fastpath, measurement, call, plan, resp, gcall, gresp>>

(***************************************************************************)
(* Optional values.  SQL NULL and Python None are the empty set, a present *)
(* value v is {v}.                                                         *)
(***************************************************************************)
Null == {}
Some(v) == {v}
Val(o) == CHOOSE v \in o : TRUE
Coalesce(a, b) == IF a # Null THEN a ELSE b

\* Python truthiness of an optional string ("if probe_cc:")
Truthy(o) == o # Null /\ Val(o) # ""
\* Python truthiness of an optional integer ("if probe_asn:")
TruthyInt(o) == o # Null /\ Val(o) # 0

Min(a, b) == IF a < b THEN a ELSE b

(***************************************************************************)
(* Bounds of the model.                                                    *)
(***************************************************************************)
MaxRows == 2       \* rows per store
MaxOffset == 1     \* offsets 0..MaxOffset
MaxLimit == 2      \* limits 1..MaxLimit

(***************************************************************************)
(* Program constants.                                                      *)
(***************************************************************************)
MSM_ID_PREFIX == "temp-id"
FASTPATH_MSM_ID_PREFIX == "temp-fid-"
INULL == ""

(***************************************************************************)
(* Strings that the code takes apart are sequences of characters.          *)
(***************************************************************************)
DigitChars == <<"0", "1", "2", "3", "4", "5", "6", "7", "8", "9">>

IsDigit(c) == \E i \in 1..Len(DigitChars) : DigitChars[i] = c
DigitVal(c) == (CHOOSE i \in 1..Len(DigitChars) : DigitChars[i] = c) - 1

\* "%s" % n for n >= 0
RECURSIVE IntToStr(_)
IntToStr(n) ==
    IF n < 10 THEN <<DigitChars[n + 1]>>
    ELSE IntToStr(n \div 10) \o <<DigitChars[(n % 10) + 1]>>

\* the value of a non-empty string of digits
RECURSIVE DigitsToInt(_)
DigitsToInt(s) ==
    IF Len(s) = 1 THEN DigitVal(s[1])
    ELSE 10 * DigitsToInt(SubSeq(s, 1, Len(s) - 1)) + DigitVal(s[Len(s)])

AllDigits(s) == Len(s) > 0 /\ \A i \in 1..Len(s) : IsDigit(s[i])

\* str.startswith("AS")
StartsWithAS(s) == Len(s) >= 2 /\ s[1] = "A" /\ s[2] = "S"

\* int(s): an optional sign and digits, else ValueError
IntOk(s) ==
    \/ AllDigits(s)
    \/ Len(s) > 1 /\ s[1] \in {"-", "+"} /\ AllDigits(Tail(s))

IntOf(s) ==
    IF AllDigits(s) THEN DigitsToInt(s)
    ELSE IF s[1] = "-" THEN 0 - DigitsToInt(Tail(s))
    ELSE DigitsToInt(Tail(s))

\* probe_asn: strip a leading "AS", then int()
StripAS(s) == IF StartsWithAS(s) THEN SubSeq(s, 3, Len(s)) ELSE s

\* "AS{}".format(n)
RECURSIVE FormatAsn(_)
FormatAsn(n) ==
    IF n < 0 THEN <<"A", "S", "-">> \o IntToStr(0 - n)
    ELSE <<"A", "S">> \o IntToStr(n)

\* math.ceil(a / b) for a >= 0 and b >= 1
Ceil(a, b) == (a + b - 1) \div b

(***************************************************************************)
(* dateutil's parse on the date strings of the model: a timestamp, or      *)
(* ValueError (Null here) on a string it cannot parse.                     *)
(***************************************************************************)
TimeValues == 1..2
\* PostgreSQL sorts NULL after every value (last in ASC, first in DESC)
NullRank == (CHOOSE t \in TimeValues : \A u \in TimeValues : u <= t) + 1
ParseDate(s) ==
    CASE s = "2020-01-01" -> Some(1)
      [] s = "2020-01-02" -> Some(2)
      [] OTHER -> Null

\* str.lower() on the order strings of the model
Lower(s) ==
    CASE s = "ASC" -> "asc"
      [] s = "Desc" -> "desc"
      [] OTHER -> s

\* a tri-state that never falls back to "unset"
TriStateNeverUnset(raw) ==
    IF raw = Null THEN Null ELSE Some("true" \in Val(raw))

\* set(x) == set(["true", "false"]) / set(x) == set(["true"])
TriState(raw) ==
    IF raw = Null THEN Null
    ELSE IF Val(raw) = {"true", "false"} THEN Null
    ELSE Some(Val(raw) = {"true"})

(***************************************************************************)
(* The lookup tables domain_input (input -> domain) and citizenlab         *)
(* (url -> category_code; a url may be listed more than once).             *)
(***************************************************************************)
DomainInput ==
    { [input |-> "u1", domain |-> "d1"],
      [input |-> "u2", domain |-> "d2"] }

Citizenlab ==
    { [id |-> 1, url |-> "u1", category_code |-> "NEWS"],
      [id |-> 2, url |-> "u1", category_code |-> "NEWS"],
      [id |-> 3, url |-> "u2", category_code |-> "POLR"] }

NoRow == [id |-> 0]

(***************************************************************************)
(* Filter normalisation ("## Prepare query parameters").  The result is    *)
(* the error raised, or "" and the normalised values.                      *)
(***************************************************************************)
AsnError(c) == c.probe_asn # Null /\ ~IntOk(StripAS(Val(c.probe_asn)))
SinceError(c) == c.since # Null /\ ParseDate(Val(c.since)) = Null
UntilError(c) == c.until # Null /\ ParseDate(Val(c.until)) = Null
OrderError(c) == Lower(c.order) \notin {"asc", "desc"}

\* the exception that leaves the preparation, in the order of the code
PrepareError(c) ==
    IF AsnError(c) THEN "ValueError"
    ELSE IF SinceError(c) THEN "BadRequest: Invalid since"
    ELSE IF UntilError(c) THEN "BadRequest: Invalid until"
    ELSE IF OrderError(c) THEN "BadRequest: Invalid order"
    ELSE ""

NormAsn(c) ==
    IF c.probe_asn = Null THEN Null ELSE Some(IntOf(StripAS(Val(c.probe_asn))))
NormSince(c) == IF c.since = Null THEN Null ELSE ParseDate(Val(c.since))
NormUntil(c) == IF c.until = Null THEN Null ELSE ParseDate(Val(c.until))

\* "if input_ or domain or category_code": domain_input is inner-joined
InputJoin(c) == Truthy(c.input) \/ Truthy(c.domain) \/ Truthy(c.category_code)
\* citizenlab is joined only when input_ does not override category_code
CitizenlabJoin(c) == ~Truthy(c.input) /\ Truthy(c.category_code)

(***************************************************************************)
(* The WHERE lists mrwhere and fpwhere, as sets of their clauses.          *)
(***************************************************************************)
FlagClauses(flag, ifTrue, ifFalse) ==
    IF flag = Some(TRUE) THEN {ifTrue}
    ELSE IF flag = Some(FALSE) THEN {ifFalse}
    ELSE {}

\* the input, domain and category_code clauses left out
InputClausesNone(c, forInput, forDomain, forCategory) == {}

InputClauses(c, forInput, forDomain, forCategory) ==
    IF ~InputJoin(c) THEN {}
    ELSE IF Truthy(c.input) THEN {forInput}
    ELSE (IF Truthy(c.domain) THEN {forDomain} ELSE {})
         \cup (IF Truthy(c.category_code) THEN {forCategory} ELSE {})

MrWhere(c) ==
    (IF NormSince(c) # Null THEN {"measurement.measurement_start_time > :since"} ELSE {})
    \cup (IF NormUntil(c) # Null THEN {"measurement.measurement_start_time <= :until"} ELSE {})
    \cup (IF Truthy(c.report_id) THEN {"report.report_id = :report_id"} ELSE {})
    \cup (IF Truthy(c.probe_cc) THEN {"report.probe_cc = :probe_cc"} ELSE {})
    \cup (IF NormAsn(c) # Null THEN {"report.probe_asn = :probe_asn"} ELSE {})
    \cup (IF c.test_name # Null THEN {"report.test_name = :test_name"} ELSE {})
    \cup FlagClauses(TriState(c.anomaly),
                     "measurement.anomaly IS TRUE", "measurement.anomaly IS NOT TRUE")
    \cup FlagClauses(TriState(c.confirmed),
                     "measurement.confirmed IS TRUE", "measurement.confirmed IS NOT TRUE")
    \cup FlagClauses(TriState(c.failure),
                     "measurement.exc IS NOT NULL", "measurement.exc IS NULL")
    \cup InputClauses(c, "domain_input.input = :input", "domain_input.domain = :domain",
                      "citizenlab.category_code = :category_code")

FpWhere(c) ==
    (IF NormSince(c) # Null THEN {"measurement_start_time > :since"} ELSE {})
    \cup (IF NormUntil(c) # Null THEN {"measurement_start_time <= :until"} ELSE {})
    \cup (IF Truthy(c.report_id) THEN {"report_id = :report_id"} ELSE {})
    \cup (IF Truthy(c.probe_cc) THEN {"probe_cc = :probe_cc"} ELSE {})
    \cup (IF NormAsn(c) # Null THEN {"probe_asn = :probe_asn"} ELSE {})
    \cup (IF c.test_name # Null THEN {"test_name = :test_name"} ELSE {})
    \cup FlagClauses(TriState(c.anomaly),
                     "fastpath.anomaly IS TRUE", "fastpath.anomaly IS NOT TRUE")
    \cup FlagClauses(TriState(c.confirmed),
                     "fastpath.confirmed IS TRUE", "fastpath.confirmed IS NOT TRUE")
    \cup FlagClauses(TriState(c.failure),
                     "fastpath.msm_failure IS TRUE", "fastpath.msm_failure IS NOT TRUE")
    \cup InputClauses(c, "domain_input.input = :input", "domain_input.domain = :domain",
                      "citizenlab.category_code = :category_code")

\* order_by as given, or the column inferred from the filters
OrderBy(c) ==
    IF c.order_by # Null THEN Val(c.order_by)
    ELSE IF Truthy(c.probe_cc) \/ TruthyInt(NormAsn(c)) \/ Truthy(c.test_name)
         THEN "test_start_time"
    ELSE "measurement_start_time"

MakePlan(c) ==
    [ probe_asn |-> NormAsn(c),
      anomaly |-> TriState(c.anomaly),
      confirmed |-> TriState(c.confirmed),
      failure |-> TriState(c.failure),
      since |-> NormSince(c),
      until |-> NormUntil(c),
      order_by |-> OrderBy(c),
      desc |-> Lower(c.order) = "desc",
      mrwhere |-> MrWhere(c),
      fpwhere |-> FpWhere(c) ]

(***************************************************************************)
(* One WHERE clause on one row of the joined tables.  A comparison with    *)
(* NULL is not true.                                                       *)
(***************************************************************************)
\* ">=" in the place of ">"
AfterOrAt(t, since) == t # Null /\ Val(t) >= Val(since)

After(t, since) == t # Null /\ Val(t) > Val(since)
UpTo(t, until) == t # Null /\ Val(t) <= Val(until)

ClauseHolds(cl, c, p, r) ==
    CASE cl = "measurement.measurement_start_time > :since" ->
             After(r.m.measurement_start_time, p.since)
      [] cl = "measurement.measurement_start_time <= :until" ->
             UpTo(r.m.measurement_start_time, p.until)
      [] cl = "report.report_id = :report_id" -> r.m.report_id = Val(c.report_id)
      [] cl = "report.probe_cc = :probe_cc" -> r.m.probe_cc = Val(c.probe_cc)
      [] cl = "report.probe_asn = :probe_asn" -> r.m.probe_asn = Val(p.probe_asn)
      [] cl = "report.test_name = :test_name" -> r.m.test_name = Val(c.test_name)
      [] cl = "measurement.anomaly IS TRUE" -> r.m.anomaly = Some(TRUE)
      [] cl = "measurement.anomaly IS NOT TRUE" -> r.m.anomaly # Some(TRUE)
      [] cl = "measurement.confirmed IS TRUE" -> r.m.confirmed = Some(TRUE)
      [] cl = "measurement.confirmed IS NOT TRUE" -> r.m.confirmed # Some(TRUE)
      [] cl = "measurement.exc IS NOT NULL" -> r.m.exc # Null
      [] cl = "measurement.exc IS NULL" -> r.m.exc = Null
      [] cl = "measurement_start_time > :since" ->
             After(r.f.measurement_start_time, p.since)
      [] cl = "measurement_start_time <= :until" ->
             UpTo(r.f.measurement_start_time, p.until)
      [] cl = "report_id = :report_id" -> r.f.report_id = Val(c.report_id)
      [] cl = "probe_cc = :probe_cc" -> r.f.probe_cc = Val(c.probe_cc)
      [] cl = "probe_asn = :probe_asn" -> r.f.probe_asn = Val(p.probe_asn)
      [] cl = "test_name = :test_name" -> r.f.test_name = Val(c.test_name)
      [] cl = "fastpath.anomaly IS TRUE" -> r.f.anomaly = Some(TRUE)
      [] cl = "fastpath.anomaly IS NOT TRUE" -> r.f.anomaly # Some(TRUE)
      [] cl = "fastpath.confirmed IS TRUE" -> r.f.confirmed = Some(TRUE)
      [] cl = "fastpath.confirmed IS NOT TRUE" -> r.f.confirmed # Some(TRUE)
      [] cl = "fastpath.msm_failure IS TRUE" -> r.f.msm_failure = Some(TRUE)
      [] cl = "fastpath.msm_failure IS NOT TRUE" -> r.f.msm_failure # Some(TRUE)
      [] cl = "domain_input.input = :input" -> r.di.input = Val(c.input)
      [] cl = "domain_input.domain = :domain" -> r.di.domain = Val(c.domain)
      [] cl = "citizenlab.category_code = :category_code" ->
             r.cl.category_code = Val(c.category_code)

WhereHolds(where, c, p, r) == \A cl \in where : ClauseHolds(cl, c, p, r)

(***************************************************************************)
(* The FROM clauses.  measurement JOIN report is one row of the variable   *)
(* measurement; domain_input is inner-joined when an input, domain or      *)
(* category_code filter is present and outer-joined otherwise (canonical   *)
(* store only); citizenlab is inner-joined for category_code.              *)
(***************************************************************************)
DomainInputOf(input) == { d \in DomainInput : input = Some(d.input) }
CitizenlabOf(di) == { x \in Citizenlab : x.url = di.input }

MrTable(c) ==
    UNION { UNION {
        { [m |-> m, di |-> di, cl |-> cl] :
            cl \in IF CitizenlabJoin(c) THEN CitizenlabOf(di) ELSE {NoRow} } :
        di \in IF InputJoin(c) \/ DomainInputOf(m.input) # {}
               THEN DomainInputOf(m.input) ELSE {NoRow} } :
      m \in measurement }

FpTable(c) ==
    UNION { UNION {
        { [f |-> f, di |-> di, cl |-> cl] :
            cl \in IF CitizenlabJoin(c) THEN CitizenlabOf(di) ELSE {NoRow} } :
        di \in IF InputJoin(c) THEN DomainInputOf(f.input) ELSE {NoRow} } :
      f \in fastpath }

(***************************************************************************)
(* The SELECT lists cols and fpcols: the shared, labelled columns.  via    *)
(* tells apart the copies of a row that a join to citizenlab makes.        *)
(***************************************************************************)
MrCols(r) ==
    [ test_start_time |-> Some(r.m.test_start_time),
      measurement_start_time |-> r.m.measurement_start_time,
      measurement_id |-> Some(<<MSM_ID_PREFIX, "-", r.m.msm_no>>),
      anomaly |-> Some(Val(Coalesce(r.m.anomaly, Some(FALSE)))),
      confirmed |-> Some(Val(Coalesce(r.m.confirmed, Some(FALSE)))),
      failure |-> Some(r.m.exc # Null),
      scores |-> Some("{}"),
      report_id |-> Some(r.m.report_id),
      probe_cc |-> Some(r.m.probe_cc),
      probe_asn |-> Some(r.m.probe_asn),
      test_name |-> Some(r.m.test_name),
      input |-> Some(IF r.di = NoRow THEN INULL ELSE r.di.input),
      via |-> r.cl.id ]

FpCols(r) ==
    [ test_start_time |-> r.f.measurement_start_time,
      measurement_start_time |-> r.f.measurement_start_time,
      measurement_id |-> Some(<<FASTPATH_MSM_ID_PREFIX, r.f.tid>>),
      anomaly |-> r.f.anomaly,
      confirmed |-> r.f.confirmed,
      failure |-> r.f.msm_failure,
      scores |-> r.f.scores,
      report_id |-> Some(r.f.report_id),
      probe_cc |-> Some(r.f.probe_cc),
      probe_asn |-> Some(r.f.probe_asn),
      test_name |-> Some(r.f.test_name),
      input |-> Some(Val(Coalesce(r.f.input, Some(INULL)))),
      via |-> r.cl.id ]

\* the side of a FULL OUTER JOIN row that has no match: every column NULL
NullCols ==
    [ test_start_time |-> Null, measurement_start_time |-> Null,
      measurement_id |-> Null, anomaly |-> Null, confirmed |-> Null,
      failure |-> Null, scores |-> Null, report_id |-> Null, probe_cc |-> Null,
      probe_asn |-> Null, test_name |-> Null, input |-> Null, via |-> 0 ]

MrFiltered(c) ==
    { MrCols(r) : r \in { x \in MrTable(c) : WhereHolds(MrWhere(c), c, MakePlan(c), x) } }
FpFiltered(c) ==
    { FpCols(r) : r \in { x \in FpTable(c) : WhereHolds(FpWhere(c), c, MakePlan(c), x) } }

(***************************************************************************)
(* ORDER BY <order_by> <order> and LIMIT.  Rows with equal keys come in    *)
(* any order, so a LIMIT that cuts through them keeps any of them.         *)
(***************************************************************************)
Rank(t) == IF t = Null THEN NullRank ELSE Val(t)
Before(a, b, desc) == IF desc THEN Rank(a) > Rank(b) ELSE Rank(a) < Rank(b)

\* the possible results of ORDER BY col LIMIT n on the rows S, as sets
Limited(S, col, desc, n) ==
    { T \in SUBSET S :
        /\ Cardinality(T) = Min(n, Cardinality(S))
        /\ \A x \in T : \A y \in S \ T : ~Before(y[col], x[col], desc) }

\* fp FULL OUTER JOIN mr ON fp.input = mr.input AND fp.report_id = mr.report_id
FullOuterJoin(F, M) ==
    LET match(f, m) == f.input = m.input /\ f.report_id = m.report_id
    IN { [fp |-> f, mr |-> m] : <<f, m>> \in { x \in F \X M : match(x[1], x[2]) } }
       \cup { [fp |-> f, mr |-> NullCols] : f \in { x \in F : \A m \in M : ~match(x, m) } }
       \cup { [fp |-> NullCols, mr |-> m] : m \in { x \in M : \A f \in F : ~match(f, x) } }

\* coal(colname)
Coal(j, col) == Coalesce(j.fp[col], j.mr[col])

\* the merger columns of the outer query
Merger(j) ==
    [ test_start_time |-> Coal(j, "test_start_time"),
      measurement_start_time |-> Coal(j, "measurement_start_time"),
      measurement_id |-> Coalesce(j.mr.measurement_id, j.fp.measurement_id),
      anomaly |-> Coal(j, "anomaly"),
      confirmed |-> Coal(j, "confirmed"),
      failure |-> Coal(j, "failure"),
      scores |-> Coalesce(j.fp.scores, Some("{}")),
      report_id |-> Coal(j, "report_id"),
      probe_cc |-> Coal(j, "probe_cc"),
      probe_asn |-> Coal(j, "probe_asn"),
      test_name |-> Coal(j, "test_name"),
      input |-> Coal(j, "input") ]

\* the orders in which ORDER BY may return the joined rows J
RECURSIVE Ordered(_, _, _)
Ordered(J, col, desc) ==
    IF J = {} THEN {<<>>}
    ELSE UNION { { <<x>> \o s : s \in Ordered(J \ {x}, col, desc) } :
                 x \in { y \in J : \A z \in J :
                           ~Before(Merger(z)[col], Merger(y)[col], desc) } }

\* OFFSET offset LIMIT limit
Slice(s, offset, limit) == SubSeq(s, offset + 1, Min(offset + limit, Len(s)))

\* every row sequence the outer query may return
QueryRows(c) ==
    LET col == OrderBy(c)
        desc == Lower(c.order) = "desc"
        n == c.offset + c.limit
    IN UNION { UNION {
           { Slice(s, c.offset, c.limit) : s \in Ordered(FullOuterJoin(F, M), col, desc) } :
           M \in Limited(MrFiltered(c), col, desc, n) } :
         F \in Limited(FpFiltered(c), col, desc, n) }

(***************************************************************************)
(* The Python side: the result dicts, _merge_results, the INULL            *)
(* replacement and the metadata.                                           *)
(***************************************************************************)
\* json.loads on the scores of the model: an object as its set of items
JsonLoads(s) ==
    CASE s = "{}" -> {}
      [] s = "{\"blocking_general\":1}" -> {<<"blocking_general", 1>>}

\* one entry of tmpresults
ResultOf(x) ==
    [ measurement_url |-> <<"/api/v1/measurement/">> \o Val(x.measurement_id),
      measurement_id |-> Val(x.measurement_id),
      report_id |-> Val(x.report_id),
      probe_cc |-> Val(x.probe_cc),
      probe_asn |-> FormatAsn(Val(x.probe_asn)),
      test_name |-> Val(x.test_name),
      measurement_start_time |-> x.measurement_start_time,
      input |-> x.input,
      anomaly |-> x.anomaly,
      confirmed |-> x.confirmed,
      failure |-> x.failure,
      scores |-> JsonLoads(Val(x.scores)) ]

TmpResults(rows) == [ i \in 1..Len(rows) |-> ResultOf(Merger(rows[i])) ]

\* _merge_results: the first entry of each (report_id, input), in order
RECURSIVE MergeFrom(_, _)
MergeFrom(t, seen) ==
    IF t = <<>> THEN <<>>
    ELSE LET k == <<Head(t).report_id, Head(t).input>>
         IN IF k \in seen THEN MergeFrom(Tail(t), seen)
            ELSE <<Head(t)>> \o MergeFrom(Tail(t), seen \cup {k})

\* a _merge_results that keeps every entry
MergeResultsKeepAll(tmpresults) == tmpresults

\* a _merge_results that overwrites: each key keeps its place and takes
\* the last of its entries
MergeResultsKeepLast(tmpresults) ==
    LET first == MergeFrom(tmpresults, {})
        same(a, b) == a.report_id = b.report_id /\ a.input = b.input
        last(r) == CHOOSE i \in 1..Len(tmpresults) :
                      /\ same(tmpresults[i], r)
                      /\ \A j \in (i + 1)..Len(tmpresults) : ~same(tmpresults[j], r)
    IN [ i \in 1..Len(first) |-> tmpresults[last(first[i])] ]

MergeResults(tmpresults) == MergeFrom(tmpresults, {})

\* the results with the join sentinel left in
ReplaceINULLNever(results) == results

\* "Replace the special value INULL for input with None"
ReplaceINULL(results) ==
    [ i \in 1..Len(results) |->
        IF results[i].input = Some(INULL)
        THEN [results[i] EXCEPT !.input = Null] ELSE results[i] ]

\* math.floor in the place of math.ceil
CurrentPageFloor(offset, limit) == (offset \div limit) + 1

CurrentPage(offset, limit) == Ceil(offset, limit) + 1

\* the next link: the request's arguments with offset and limit replaced
NextUrl(c) ==
    [ path |-> "/api/v1/measurements",
      offset |-> IntToStr(c.offset + c.limit),
      limit |-> IntToStr(c.limit) ]

\* "<=" in the place of "<": a full page taken for the last one
MetadataFullIsLast(c, results) ==
    IF Len(results) <= c.limit
    THEN [ offset |-> c.offset, limit |-> c.limit,
           count |-> c.offset + Len(results),
           pages |-> Ceil(c.offset + Len(results), c.limit),
           current_page |-> CurrentPage(c.offset, c.limit),
           next_url |-> Null ]
    ELSE [ offset |-> c.offset, limit |-> c.limit,
           count |-> -1,
           pages |-> -1,
           current_page |-> CurrentPage(c.offset, c.limit),
           next_url |-> Some(NextUrl(c)) ]

Metadata(c, results) ==
    IF Len(results) < c.limit
    THEN [ offset |-> c.offset, limit |-> c.limit,
           count |-> c.offset + Len(results),
           pages |-> Ceil(c.offset + Len(results), c.limit),
           current_page |-> CurrentPage(c.offset, c.limit),
           next_url |-> Null ]
    ELSE [ offset |-> c.offset, limit |-> c.limit,
           count |-> -1,
           pages |-> -1,
           current_page |-> CurrentPage(c.offset, c.limit),
           next_url |-> Some(NextUrl(c)) ]

\* the JSON answer for the rows the query returned
Answer(c, rows) ==
    LET results == ReplaceINULL(MergeResults(TmpResults(rows)))
    IN [ status |-> 200, error |-> "", queries |-> 1,
         metadata |-> Metadata(c, results),
         results |-> SubSeq(results, 1, Min(c.limit, Len(results))) ]

\* an exception that leaves the handler
Failure(status, error, queries) ==
    [ status |-> status, error |-> error, queries |-> queries,
      metadata |-> Null, results |-> <<>> ]

\* every OperationalError taken for a timeout
ExecuteFailureAlwaysTimeout(db) == Failure(504, "QueryTimeoutError", 1)

\* "except OperationalError as exc": abort(504) when exc.orig is a
\* QueryCanceledError, "raise exc" otherwise
ExecuteFailure(db) ==
    IF db = "QueryCanceledError"
    THEN Failure(504, "QueryTimeoutError", 1)
    ELSE Failure(500, "OperationalError", 1)

(***************************************************************************)
(* list_measurements, from the preparation of the parameters to the        *)
(* response.  c.db is what the database does with the query: it answers,   *)
(* cancels it on timeout, or fails otherwise.                              *)
(***************************************************************************)
ListMeasurements(c) ==
    /\ call' = c
    /\ UNCHANGED <<fastpath, measurement, gcall, gresp>>
    /\ IF PrepareError(c) = "ValueError"
       THEN plan' = Null /\ resp' = Failure(500, "ValueError", 0)
       ELSE IF PrepareError(c) # ""
       THEN plan' = Null /\ resp' = Failure(400, PrepareError(c), 0)
       ELSE /\ plan' = Some(MakePlan(c))
            /\ IF c.db # "ok"
               THEN resp' = ExecuteFailure(c.db)
               ELSE \E rows \in QueryRows(c) : resp' = Answer(c, rows)

(***************************************************************************)
(* get_measurement.  Identifiers, names and bodies are sequences of        *)
(* characters.  A compressed body is its length and the frame it           *)
(* decompresses to (none when it is no LZ4 frame).                         *)
(***************************************************************************)
\* the characters of FASTPATH_MSM_ID_PREFIX and of MSM_ID_PREFIX
FastpathPrefixChars == <<"t", "e", "m", "p", "-", "f", "i", "d", "-">>
MsmIdPrefixChars == <<"t", "e", "m", "p", "-", "i", "d">>
FASTPATH_SERVER == "fastpath.ooni.nu"
FASTPATH_PORT == 8000

\* str.startswith(p) and s[n:]
StartsWith(s, p) == Len(s) >= Len(p) /\ SubSeq(s, 1, Len(p)) = p
DropFirst(s, n) == SubSeq(s, n + 1, Len(s))

\* RE_MSM_ID.match: group 1 of ^temp-id-(\d+)$, or no match; "$" matches
\* at the end and before one final newline
MsmIdMatch(id) ==
    LET body == IF Len(id) > 0 /\ id[Len(id)] = "\n"
                THEN SubSeq(id, 1, Len(id) - 1) ELSE id
        head == MsmIdPrefixChars \o <<"-">>
        rest == DropFirst(body, Len(head))
    IN IF StartsWith(body, head) /\ AllDigits(rest) THEN Some(rest) ELSE Null

\* measurement JOIN report JOIN autoclaved: the locator of each msm_no
Autoclaved ==
    { [ msm_no |-> 1, frame_off |-> 10, frame_size |-> 4,
        intra_off |-> 1, intra_size |-> 2,
        textname |-> <<"d", "/", "f">>, filename |-> "2020-01-01/a.tar.lz4" ],
      [ msm_no |-> 12, frame_off |-> 0, frame_size |-> 4,
        intra_off |-> 0, intra_size |-> 3,
        textname |-> <<"f">>, filename |-> "2020-01-02/b.tar.lz4" ],
      [ msm_no |-> 12, frame_off |-> 4, frame_size |-> 4,
        intra_off |-> 2, intra_size |-> 0,
        textname |-> <<"f">>, filename |-> "2020-01-02/c.tar.lz4" ] }

\* lz4framed.decompress: the frame, or none when it raises
Decompress(blob) == blob.frame

\* blob[intra_off : intra_off + intra_size]
PySlice(s, from, to) == SubSeq(s, Min(from, Len(s)) + 1, Min(to, Len(s)))

\* textname.replace("/", "-")
ReplaceSlash(s) == [ i \in 1..Len(s) |-> IF s[i] = "/" THEN "-" ELSE s[i] ]

GetFailure(status, error, lookups, fetches) ==
    [ status |-> status, error |-> error, body |-> Null, headers |-> {},
      lookups |-> lookups, fetches |-> fetches ]

GetAnswer(body, headers, lookups, fetches) ==
    [ status |-> 200, error |-> "", body |-> Some(body), headers |-> headers,
      lookups |-> lookups, fetches |-> fetches ]

\* the request to the fastpath host for one transaction id
FastpathRequest(tid) ==
    [ host |-> FASTPATH_SERVER, port |-> FASTPATH_PORT,
      path |-> <<"/measurements/">> \o tid \o <<".json.lz4">>,
      range |-> Null ]

\* get_one_fastpath_measurement: conn.request and conn.getresponse come
\* before the try; the assert, the read and the decompression are in it
GetOneFastpathMeasurement(g) ==
    LET tid == DropFirst(g.measurement_id, Len(FastpathPrefixChars))
        req == <<FastpathRequest(tid)>>
    IN IF g.fetch.kind = "connect_error"
       THEN GetFailure(500, "ConnectionError", 0, req)
       ELSE IF \/ g.fetch.status # 200
               \/ g.fetch.kind = "read_error"
               \/ Decompress(g.fetch) = Null
       THEN GetFailure(400, "No measurement found", 0, req)
       ELSE GetAnswer(Val(Decompress(g.fetch)),
                      {<<"Content-Type", "application/json">>}, 0, req)

\* a range that runs one byte past the frame
RangeRequestPastEnd(msmt) ==
    [ host |-> "AUTOCLAVED_BASE_URL", port |-> 0,
      path |-> msmt.filename,
      range |-> Some(<<msmt.frame_off, msmt.frame_off + msmt.frame_size>>) ]

\* the range request to the archive for the frame of one locator
RangeRequest(msmt) ==
    [ host |-> "AUTOCLAVED_BASE_URL", port |-> 0,
      path |-> msmt.filename,
      range |-> Some(<<msmt.frame_off, msmt.frame_off + msmt.frame_size - 1>>) ]

\* a body longer than the frame taken for the frame
FrameIsShort(len, frame_size) == len < frame_size

\* len(blob) != msmt.frame_size
FrameLengthDiffers(len, frame_size) == len # frame_size

\* the checks on the slice without the one on its last byte
SliceIsValidButLast(blob, intra_size) ==
    /\ Len(blob) = intra_size
    /\ SubSeq(blob, 1, Min(1, Len(blob))) = <<"{">>

\* the three checks on the slice: its length, its first and its last byte
SliceIsValid(blob, intra_size) ==
    /\ Len(blob) = intra_size
    /\ SubSeq(blob, 1, Min(1, Len(blob))) = <<"{">>
    /\ SubSeq(blob, Len(blob), Len(blob)) = << "}" >>

\* the headers of the answer
PayloadHeaders(g, msmt) ==
    {<<"Content-Type", "application/json">>}
    \cup IF g.download = Null THEN {}
         ELSE {<<"Content-Disposition",
                 <<"ooni-msmt-">> \o g.measurement_id \o <<"-">>
                     \o ReplaceSlash(msmt.textname)>>}

\* get_measurement from the fetch on, for the locator msmt
FetchPayload(g, msmt) ==
    LET req == <<RangeRequest(msmt)>>
        blob == PySlice(Val(Decompress(g.fetch)),
                        msmt.intra_off, msmt.intra_off + msmt.intra_size)
    IN IF g.fetch.kind # "response"
       THEN GetFailure(500, "ConnectionError", 1, req)
       ELSE IF g.fetch.status >= 400
       THEN GetFailure(500, "HTTPError", 1, req)
       ELSE IF FrameLengthDiffers(g.fetch.len, msmt.frame_size)
       THEN GetFailure(500, "RuntimeError", 1, req)
       ELSE IF Decompress(g.fetch) = Null
       THEN GetFailure(500, "Lz4FramedError", 1, req)
       ELSE IF ~SliceIsValid(blob, msmt.intra_size)
       THEN GetFailure(500, "RuntimeError", 1, req)
       ELSE GetAnswer(blob, PayloadHeaders(g, msmt), 1, req)

\* no row for the identifier taken for a malformed identifier
AbortBadRequest(lookups) == GetFailure(400, "Invalid measurement_id", lookups, <<>>)

\* "if msmt is None: abort(404)"
AbortNotFound(lookups) == GetFailure(404, "NotFound", lookups, <<>>)

\* every response get_measurement may give; fetchone takes any of the rows
GetMeasurementOutcomes(g) ==
    IF StartsWith(g.measurement_id, FastpathPrefixChars)
    THEN { GetOneFastpathMeasurement(g) }
    ELSE IF MsmIdMatch(g.measurement_id) = Null
    THEN { GetFailure(400, "Invalid measurement_id", 0, <<>>) }
    ELSE IF g.db # "ok"
    THEN { GetFailure(500, "OperationalError", 1, <<>>) }
    ELSE LET msm_no == DigitsToInt(Val(MsmIdMatch(g.measurement_id)))
             rows == { r \in Autoclaved : r.msm_no = msm_no }
         IN IF rows = {} THEN { AbortNotFound(1) }
            ELSE { FetchPayload(g, msmt) : msmt \in rows }

GetMeasurement(g) ==
    /\ gcall' = g
    /\ gresp' \in GetMeasurementOutcomes(g)
    /\ UNCHANGED <<fastpath, measurement, call, plan, resp>>

\* before any get_measurement call
NoFetch == [ kind |-> "none", status |-> 0, len |-> 0, frame |-> Null ]
NoGetCall ==
    [ measurement_id |-> <<>>, download |-> Null, db |-> "none", fetch |-> NoFetch ]
NoGetResp == GetFailure(0, "", 0, <<>>)

(***************************************************************************)
(* The rows the stores are filled from.  Several rows may share one        *)
(* (report_id, input); the same measurement may be in both stores, with    *)
(* its own timestamps and flags in each.                                   *)
(***************************************************************************)
Keys ==
    << [report_id |-> "r1", input |-> Some("u1")],
       [report_id |-> "r2", input |-> Some("u1")],
       [report_id |-> "r1", input |-> Null] >>

FpRow(tid, key, t) ==
    [ tid |-> tid, report_id |-> key.report_id, input |-> key.input,
      measurement_start_time |-> Some(t),
      anomaly |-> IF t = 1 THEN Some(TRUE) ELSE Null,
      confirmed |-> IF t = 1 THEN Null ELSE Some(FALSE),
      msm_failure |-> IF t = 1 THEN Some(FALSE) ELSE Null,
      scores |-> IF t = 1 THEN Some("{\"blocking_general\":1}") ELSE Null,
      probe_cc |-> "IT", probe_asn |-> 1, test_name |-> "web_connectivity" ]

\* tst, mst: test_start_time and measurement_start_time
MrRow(no, key, tst, mst) ==
    [ msm_no |-> no, report_id |-> key.report_id, input |-> key.input,
      test_start_time |-> tst, measurement_start_time |-> mst,
      anomaly |-> IF mst = Null THEN Null ELSE Some(FALSE),
      confirmed |-> IF mst = Some(1) THEN Some(TRUE) ELSE Null,
      exc |-> IF mst = Some(2) THEN Some("exc") ELSE Null,
      probe_cc |-> "IT", probe_asn |-> 1, test_name |-> "web_connectivity" ]

\* <<key, measurement_start_time>>
PageFp == << <<1, 1>>, <<1, 2>>, <<2, 2>>, <<3, 1>> >>
\* <<key, test_start_time, measurement_start_time>>
PageMr ==
    << <<1, 1, Some(1)>>, <<1, 2, Null>>, <<2, 1, Some(2)>>,
       <<2, 2, Some(1)>>, <<3, 1, Some(2)>>, <<3, 2, Null>> >>

PageFpRows == { FpRow(i, Keys[PageFp[i][1]], PageFp[i][2]) : i \in 1..Len(PageFp) }
PageMrRows ==
    { MrRow(i, Keys[PageMr[i][1]], PageMr[i][2], PageMr[i][3]) : i \in 1..Len(PageMr) }

UpTo2(S, n) == { T \in SUBSET S : Cardinality(T) <= n }

(***************************************************************************)
(* The calls.  A call is the arguments of list_measurements, the query     *)
(* arguments input and domain, and the database's behaviour.               *)
(***************************************************************************)
NoFilters ==
    [ report_id |-> Null, probe_asn |-> Null, probe_cc |-> Null,
      test_name |-> Null, since |-> Null, until |-> Null, order_by |-> Null,
      order |-> "desc", offset |-> 0, limit |-> 1, failure |-> Null,
      anomaly |-> Null, confirmed |-> Null, category_code |-> Null,
      input |-> Null, domain |-> Null, db |-> "ok" ]

Offsets == 0..MaxOffset
Limits == 1..MaxLimit
OrderBys == {Null, Some("test_start_time"), Some("measurement_start_time")}
DbOutcomes == {"ok", "QueryCanceledError", "OperationalError"}

\* paging through the unfiltered listing
PageCalls ==
    { [NoFilters EXCEPT !.order = o, !.order_by = ob, !.offset = off, !.limit = lim] :
        o \in {"asc", "desc"}, ob \in OrderBys, off \in Offsets, lim \in Limits }
    \cup { [NoFilters EXCEPT !.db = d] : d \in DbOutcomes }
    \cup { [NoFilters EXCEPT !.order = o, !.order_by = ob, !.limit = MaxLimit + 1] :
             o \in {"asc", "desc"}, ob \in OrderBys }

NoCall == [NoFilters EXCEPT !.db = "none"]
NoResp == Failure(0, "", 0)

Init ==
    /\ fastpath \in UpTo2(PageFpRows, MaxRows)
    /\ measurement \in UpTo2(PageMrRows, MaxRows)
    /\ call = NoCall
    /\ plan = Null
    /\ resp = NoResp
    /\ gcall = NoGetCall
    /\ gresp = NoGetResp

\* the model follows one query, which the client may issue again
Issued(c) == call = NoCall \/ call = c

Next == \E c \in PageCalls : Issued(c) /\ ListMeasurements(c)

Spec == Init /\ [][Next]_vars

(***************************************************************************)
(* A second population, for the filters: rows that differ in every         *)
(* filtered column, and calls that set the filters.                        *)
(***************************************************************************)
FilterFpRows ==
    { [ tid |-> 1, report_id |-> "r1", input |-> Some("u1"),
        measurement_start_time |-> Some(1), anomaly |-> Some(TRUE),
        confirmed |-> Some(TRUE), msm_failure |-> Some(FALSE),
        scores |-> Some("{\"blocking_general\":1}"),
        probe_cc |-> "IT", probe_asn |-> 1, test_name |-> "web_connectivity" ],
      [ tid |-> 2, report_id |-> "r2", input |-> Some("u2"),
        measurement_start_time |-> Some(2), anomaly |-> Null,
        confirmed |-> Some(FALSE), msm_failure |-> Some(TRUE),
        scores |-> Some("{}"),
        probe_cc |-> "US", probe_asn |-> 0, test_name |-> "web_connectivity" ],
      [ tid |-> 3, report_id |-> "r1", input |-> Null,
        measurement_start_time |-> Some(2), anomaly |-> Some(FALSE),
        confirmed |-> Null, msm_failure |-> Null,
        scores |-> Null,
        probe_cc |-> "IT", probe_asn |-> 1, test_name |-> "ndt" ],
      [ tid |-> 4, report_id |-> "r2", input |-> Some("u9"),
        measurement_start_time |-> Some(1), anomaly |-> Some(TRUE),
        confirmed |-> Some(FALSE), msm_failure |-> Null,
        scores |-> Some("{}"),
        probe_cc |-> "US", probe_asn |-> 0, test_name |-> "ndt" ] }

FilterMrRows ==
    { [ msm_no |-> 1, report_id |-> "r1", input |-> Some("u1"),
        test_start_time |-> 1, measurement_start_time |-> Some(1),
        anomaly |-> Some(FALSE), confirmed |-> Null, exc |-> Null,
        probe_cc |-> "IT", probe_asn |-> 1, test_name |-> "web_connectivity" ],
      [ msm_no |-> 2, report_id |-> "r2", input |-> Some("u2"),
        test_start_time |-> 2, measurement_start_time |-> Some(2),
        anomaly |-> Some(TRUE), confirmed |-> Some(TRUE), exc |-> Some("exc"),
        probe_cc |-> "US", probe_asn |-> 0, test_name |-> "web_connectivity" ],
      [ msm_no |-> 3, report_id |-> "r1", input |-> Null,
        test_start_time |-> 1, measurement_start_time |-> Null,
        anomaly |-> Null, confirmed |-> Some(FALSE), exc |-> Some("exc"),
        probe_cc |-> "IT", probe_asn |-> 1, test_name |-> "ndt" ],
      [ msm_no |-> 4, report_id |-> "r2", input |-> Some("u1"),
        test_start_time |-> 2, measurement_start_time |-> Some(2),
        anomaly |-> Some(TRUE), confirmed |-> Some(FALSE), exc |-> Null,
        probe_cc |-> "IT", probe_asn |-> 0, test_name |-> "ndt" ] }

\* the sets a tri-state argument may carry
FlagSets == { Null, Some({}), Some({"true"}), Some({"false"}), Some({"true", "false"}) }

AsnStrings ==
    { <<"A", "S", "1">>, <<"1">>, <<"A", "S", "0">>, <<"A", "S", "x">>,
      <<"A", "S">>, <<"-", "1">> }
OrderStrings == { "asc", "Desc", "up" }

\* at most one of the equality filters
EqCalls ==
    { NoFilters,
      [NoFilters EXCEPT !.report_id = Some("r1")],
      [NoFilters EXCEPT !.probe_cc = Some("IT")],
      [NoFilters EXCEPT !.probe_asn = Some(<<"A", "S", "1">>)],
      [NoFilters EXCEPT !.probe_asn = Some(<<"0">>)],
      [NoFilters EXCEPT !.test_name = Some("ndt")] }

FlagCalls ==
    { [NoFilters EXCEPT !.anomaly = a, !.confirmed = cf, !.failure = fl] :
        a \in FlagSets, cf \in FlagSets, fl \in FlagSets }
    \cup { [e EXCEPT !.anomaly = a] : e \in EqCalls, a \in FlagSets }

InputCalls ==
    { [e EXCEPT !.input = i, !.domain = d, !.category_code = cc] :
        e \in EqCalls, i \in {Null, Some("u1")},
        d \in {Null, Some("d1"), Some("d2")},
        cc \in {Null, Some("NEWS"), Some("POLR")} }

TimeCalls ==
    { [e EXCEPT !.since = si, !.until = u] :
        e \in EqCalls,
        si \in {Null, Some("2020-01-01"), Some("2020-01-02")},
        u \in {Null, Some("2020-01-01"), Some("2020-01-02")} }

\* the arguments that the preparation may refuse
ArgCalls ==
    { [NoFilters EXCEPT !.probe_asn = a, !.since = si, !.until = u, !.order = o] :
        a \in {Null} \cup { Some(x) : x \in AsnStrings },
        si \in {Null, Some("2020-01-01"), Some("yesterday-ish")},
        u \in {Null, Some("2020-01-02"), Some("yesterday-ish")},
        o \in OrderStrings }

FilterCalls ==
    { [c EXCEPT !.limit = lim] :
        c \in FlagCalls \cup InputCalls \cup TimeCalls, lim \in {1, MaxLimit} }
    \cup { [c EXCEPT !.limit = MaxLimit] : c \in ArgCalls }
    \cup { [NoFilters EXCEPT !.db = d] : d \in DbOutcomes }

InitFilter ==
    /\ fastpath \in UpTo2(FilterFpRows, MaxRows)
    /\ measurement \in UpTo2(FilterMrRows, MaxRows)
    /\ call = NoCall
    /\ plan = Null
    /\ resp = NoResp
    /\ gcall = NoGetCall
    /\ gresp = NoGetResp

NextFilter == \E c \in FilterCalls : Issued(c) /\ ListMeasurements(c)

SpecFilter == InitFilter /\ [][NextFilter]_vars

(***************************************************************************)
(* A third population, for get_measurement: identifiers of every shape     *)
(* and every behaviour of the database and of the remote hosts.            *)
(***************************************************************************)
MaxFrameLen == 3   \* decompressed frames of up to MaxFrameLen bytes

Bytes == { "{", "}", "x" }
Frames == UNION { [1..n -> Bytes] : n \in 0..MaxFrameLen }

\* what the remote host does with the request
FetchOutcomes ==
    { [ kind |-> "response", status |-> st, len |-> n, frame |-> fr ] :
        st \in {200, 206, 404}, n \in 3..5,
        fr \in {Null} \cup { Some(f) : f \in Frames } }
    \cup { [ kind |-> k, status |-> 200, len |-> 4, frame |-> Null ] :
             k \in {"connect_error", "read_error"} }

MeasurementIds ==
    { MsmIdPrefixChars \o <<"-", "1">>,
      MsmIdPrefixChars \o <<"-", "1", "2">>,
      MsmIdPrefixChars \o <<"-", "0", "1">>,
      MsmIdPrefixChars \o <<"-", "7">>,
      MsmIdPrefixChars \o <<"-">>,
      MsmIdPrefixChars \o <<"-", "1", "x">>,
      MsmIdPrefixChars \o <<"-", "1", "\n">>,
      <<"x">> \o MsmIdPrefixChars \o <<"-", "1">>,
      <<>>,
      FastpathPrefixChars \o <<"a", "b">>,
      FastpathPrefixChars }

GetCalls ==
    { [ measurement_id |-> id, download |-> d, db |-> "ok", fetch |-> f ] :
        id \in MeasurementIds, d \in {Null, Some("1")}, f \in FetchOutcomes }
    \cup { [ measurement_id |-> id, download |-> Null, db |-> e,
             fetch |-> CHOOSE f \in FetchOutcomes : f.kind = "connect_error" ] :
             id \in MeasurementIds, e \in {"QueryCanceledError", "OperationalError"} }

InitGet ==
    /\ fastpath = {}
    /\ measurement = {}
    /\ call = NoCall
    /\ plan = Null
    /\ resp = NoResp
    /\ gcall = NoGetCall
    /\ gresp = NoGetResp

\* the model follows one request, which the client may issue again
GetIssued(g) == gcall = NoGetCall \/ gcall = g

NextGet == \E g \in GetCalls : GetIssued(g) /\ GetMeasurement(g)

SpecGet == InitGet /\ [][NextGet]_vars

(***************************************************************************)
(* Properties of the listing.                                              *)
(***************************************************************************)
Answered == resp.status = 200
Results == resp.results
KeyOf(r) == <<r.report_id, r.input>>

\* the key of a row of a per-store query, as the results show it
ShownKey(x) ==
    <<Val(x.report_id), IF x.input = Some(INULL) THEN Null ELSE x.input>>

\* C1: no two records of one page share the same (report_id, input).
C1_NoDuplicateKeys ==
    Answered =>
        \A i, j \in 1..Len(Results) : i # j => KeyOf(Results[i]) # KeyOf(Results[j])

\* two canonical rows of one key were selected and one record was returned
C1_Witness ==
    /\ Answered
    /\ call.offset = 0 /\ call.limit = 2
    /\ fastpath = {}
    /\ Cardinality(measurement) = 2
    /\ \A m1, m2 \in measurement :
          m1.report_id = m2.report_id /\ m1.input = m2.input
    /\ Len(Results) = 1

\* C2: a pair present in both (filtered) stores is returned with the
\* fastpath row's scores and flags, where present, and with the canonical
\* row's identifier.
C2_FastpathValuesCanonicalId ==
    Answered =>
        \A i \in 1..Len(Results) :
            LET r == Results[i]
                FM == { f \in FpFiltered(call) : ShownKey(f) = KeyOf(r) }
                MM == { m \in MrFiltered(call) : ShownKey(m) = KeyOf(r) }
            IN (FM # {} /\ MM # {}) =>
                 /\ \E f \in FM :
                       /\ f.scores # Null => r.scores = JsonLoads(Val(f.scores))
                       /\ f.anomaly # Null => r.anomaly = f.anomaly
                       /\ f.confirmed # Null => r.confirmed = f.confirmed
                       /\ f.failure # Null => r.failure = f.failure
                 /\ \E m \in MM : r.measurement_id = Val(m.measurement_id)

\* C4: a short page reports the exact count and no next link; a full page
\* reports -1 and a next link at offset + limit with the same limit.
C4_Pagination ==
    Answered =>
        LET n == Len(Results)
            md == resp.metadata
        IN /\ n <= call.limit
           /\ n < call.limit =>
                 /\ md.count = call.offset + n
                 /\ md.pages * call.limit >= md.count
                 /\ (md.pages - 1) * call.limit < md.count
                 /\ md.next_url = Null
           /\ n = call.limit =>
                 /\ md.count = -1
                 /\ md.pages = -1
                 /\ md.next_url # Null
                 /\ DigitsToInt(Val(md.next_url).offset) = call.offset + call.limit
                 /\ DigitsToInt(Val(md.next_url).limit) = call.limit

\* a full page past the first one, with its next link
C4_Witness ==
    /\ Answered
    /\ call.offset > 0
    /\ Len(Results) = call.limit
    /\ resp.metadata.next_url # Null

\* C5: a page of fewer than limit records ends the listing: the same query
\* at offset + limit returns nothing.
C5_ShortPageIsLast ==
    (Answered /\ Len(Results) < call.limit) =>
        \A rows \in QueryRows([call EXCEPT !.offset = call.offset + call.limit]) :
            rows = <<>>

\* C6: current_page is ceil(offset / limit) + 1.
C6_CurrentPage ==
    Answered =>
        LET p == resp.metadata.current_page - 1
        IN /\ p * call.limit >= call.offset
           /\ (p - 1) * call.limit < call.offset

\* an offset that is no multiple of the limit
C6_Witness ==
    /\ Answered
    /\ call.offset % call.limit # 0
    /\ resp.metadata.current_page = 2

(***************************************************************************)
(* Properties of the filters.                                              *)
(***************************************************************************)
Responded == resp.status # 0

\* what a tri-state argument asks of a record's flag
FlagAsked(raw, flag) ==
    /\ raw = Some({"true"}) => flag = Some(TRUE)
    /\ raw = Some({"false"}) => flag # Some(TRUE)

\* the filters on the columns of the record itself
PlainFiltersHold(r) ==
    /\ Truthy(call.report_id) => r.report_id = Val(call.report_id)
    /\ Truthy(call.probe_cc) => r.probe_cc = Val(call.probe_cc)
    /\ call.probe_asn # Null =>
          IntOf(StripAS(r.probe_asn)) = IntOf(StripAS(Val(call.probe_asn)))
    /\ call.test_name # Null => r.test_name = Val(call.test_name)
    /\ FlagAsked(call.anomaly, r.anomaly)
    /\ FlagAsked(call.confirmed, r.confirmed)
    /\ FlagAsked(call.failure, r.failure)

InputHolds(r) == Truthy(call.input) => r.input = call.input
DomainHolds(r) ==
    Truthy(call.domain) =>
        \E d \in DomainInput : r.input = Some(d.input) /\ d.domain = Val(call.domain)
CategoryHolds(r) ==
    Truthy(call.category_code) =>
        \E x \in Citizenlab :
            r.input = Some(x.url) /\ x.category_code = Val(call.category_code)

\* C3, as claimed: every record satisfies every requested filter; input,
\* domain and category_code given together are all satisfied.
C3_AllFiltersHold ==
    Answered =>
        \A i \in 1..Len(Results) :
            /\ PlainFiltersHold(Results[i])
            /\ InputHolds(Results[i])
            /\ DomainHolds(Results[i])
            /\ CategoryHolds(Results[i])

\* C3, amended: every record satisfies every requested filter, except that
\* a given input overrides domain and category_code, which then filter
\* nothing.
C3_FiltersHoldInputOverrides ==
    Answered =>
        \A i \in 1..Len(Results) :
            /\ PlainFiltersHold(Results[i])
            /\ InputHolds(Results[i])
            /\ ~Truthy(call.input) =>
                  DomainHolds(Results[i]) /\ CategoryHolds(Results[i])

\* input given together with a domain that is not the domain of that input
C3_Witness ==
    /\ Answered
    /\ call.input = Some("u1") /\ call.domain = Some("d2")
    /\ call.category_code = Some("POLR")
    /\ call.probe_cc = Some("IT")
    /\ Len(Results) > 0

\* what C7 says of one tri-state argument: unset for {"true","false"},
\* else the boolean "true is in the set", with its clause on both stores
TriStateAsClaimed(raw, value, mrTrue, mrFalse, fpTrue, fpFalse) ==
    raw # Null =>
        LET p == Val(plan)
        IN IF Val(raw) = {"true", "false"}
           THEN /\ value = Null
                /\ p.mrwhere \cap {mrTrue, mrFalse} = {}
                /\ p.fpwhere \cap {fpTrue, fpFalse} = {}
           ELSE /\ value = Some("true" \in Val(raw))
                /\ p.mrwhere \cap {mrTrue, mrFalse} =
                      IF "true" \in Val(raw) THEN {mrTrue} ELSE {mrFalse}
                /\ p.fpwhere \cap {fpTrue, fpFalse} =
                      IF "true" \in Val(raw) THEN {fpTrue} ELSE {fpFalse}

\* C7: anomaly, confirmed and failure given as {"true","false"} are unset
\* and put no clause on either store; any other set collapses to the
\* boolean that is true exactly when "true" is in the set.
C7_TriState ==
    plan # Null =>
        /\ TriStateAsClaimed(call.anomaly, Val(plan).anomaly,
              "measurement.anomaly IS TRUE", "measurement.anomaly IS NOT TRUE",
              "fastpath.anomaly IS TRUE", "fastpath.anomaly IS NOT TRUE")
        /\ TriStateAsClaimed(call.confirmed, Val(plan).confirmed,
              "measurement.confirmed IS TRUE", "measurement.confirmed IS NOT TRUE",
              "fastpath.confirmed IS TRUE", "fastpath.confirmed IS NOT TRUE")
        /\ TriStateAsClaimed(call.failure, Val(plan).failure,
              "measurement.exc IS NOT NULL", "measurement.exc IS NULL",
              "fastpath.msm_failure IS TRUE", "fastpath.msm_failure IS NOT TRUE")

\* one call with a full set, an empty set and a singleton
C7_Witness ==
    /\ Answered
    /\ call.anomaly = Some({"true", "false"})
    /\ call.confirmed = Some({})
    /\ call.failure = Some({"true"})
    /\ Val(plan).anomaly = Null
    /\ Val(plan).confirmed = Some(FALSE)
    /\ Val(plan).failure = Some(TRUE)

\* C8: probe_asn loses a leading "AS" and is parsed to the integer that
\* both stores are filtered by; a remainder that is no number fails with
\* BadRequest.
C8_AsnParsedOrBadRequest ==
    (Responded /\ call.probe_asn # Null) =>
        LET rest == StripAS(Val(call.probe_asn))
        IN IF IntOk(rest)
           THEN plan # Null =>
                   /\ Val(plan).probe_asn = Some(IntOf(rest))
                   /\ "report.probe_asn = :probe_asn" \in Val(plan).mrwhere
                   /\ "probe_asn = :probe_asn" \in Val(plan).fpwhere
           ELSE resp.status = 400

\* C9: an unparseable since or until, or an order that is neither asc nor
\* desc, fails with BadRequest before any query is executed.
C9_BadRequestBeforeQuery ==
    (Responded /\ (SinceError(call) \/ UntilError(call) \/ OrderError(call))) =>
        /\ resp.status = 400
        /\ resp.queries = 0

\* the bounds a record must keep
TimeBoundsHold(t) ==
    /\ call.since # Null => t # Null /\ Val(t) > Val(ParseDate(Val(call.since)))
    /\ call.until # Null => t # Null /\ Val(t) <= Val(ParseDate(Val(call.until)))

\* no filter but since and until, and the first page
OnlyTimeFilters ==
    [call EXCEPT !.since = Null, !.until = Null, !.limit = 1] = NoFilters

\* C10: every record is later than since and not later than until; a row
\* at since is left out and a row at until is kept, in both stores.
C10_SinceExclusiveUntilInclusive ==
    Answered =>
        /\ \A i \in 1..Len(Results) :
              TimeBoundsHold(Results[i].measurement_start_time)
        /\ (OnlyTimeFilters /\ Len(Results) < call.limit) =>
              /\ \A f \in fastpath :
                    TimeBoundsHold(f.measurement_start_time) =>
                        \E i \in 1..Len(Results) :
                            KeyOf(Results[i]) = <<f.report_id, f.input>>
              /\ \A m \in measurement :
                    TimeBoundsHold(m.measurement_start_time) =>
                        \E i \in 1..Len(Results) :
                            KeyOf(Results[i]) = <<m.report_id, m.input>>

\* a row at since is left out, a row at until is returned
C10_Witness ==
    /\ Answered
    /\ call.since = Some("2020-01-01") /\ call.until = Some("2020-01-02")
    /\ \E f \in fastpath : f.measurement_start_time = Some(1)
    /\ \E m \in measurement : m.measurement_start_time = Some(1)
    /\ Len(Results) = 1
    /\ Results[1].measurement_start_time = Some(2)

(***************************************************************************)
(* Properties of the ordering and of the failures of the query.            *)
(***************************************************************************)
\* the column C11 names for the call
OrderByAsClaimed ==
    IF call.order_by # Null THEN Val(call.order_by)
    ELSE IF call.probe_cc # Null \/ call.probe_asn # Null \/ call.test_name # Null
         THEN "test_start_time"
    ELSE "measurement_start_time"

\* C11: without order_by the listing is ordered by test_start_time when a
\* probe_cc, probe_asn (AS0 included) or test_name filter is present and by
\* measurement_start_time otherwise; a given order_by is used unchanged.
C11_OrderByInferred ==
    plan # Null => Val(plan).order_by = OrderByAsClaimed

\* the query was executed and the database failed
QueryFailed == plan # Null /\ call.db # "ok"

\* C12: a query canceled on timeout always ends in 504; any other error of
\* the execution leaves the handler as it is, an internal error, never 504.
C12_TimeoutIs504 ==
    QueryFailed =>
        /\ call.db = "QueryCanceledError" => resp.status = 504
        /\ call.db # "QueryCanceledError" =>
              resp.status = 500 /\ resp.error = call.db
        /\ resp.queries = 1 /\ resp.results = <<>>

\* a query was canceled on timeout and the call ended in 504
C12_Witness ==
    /\ QueryFailed
    /\ call.db = "QueryCanceledError"
    /\ resp.status = 504

(***************************************************************************)
(* Properties of get_measurement.                                          *)
(***************************************************************************)
GetResponded == gresp.status # 0
IsFastpathId == StartsWith(gcall.measurement_id, FastpathPrefixChars)

\* the identifier is temp-id-<digits>: the prefix, a dash and one digit or
\* more, and nothing else
IsCanonicalId ==
    LET id == gcall.measurement_id
        head == MsmIdPrefixChars \o <<"-">>
    IN /\ StartsWith(id, head)
       /\ Len(id) > Len(head)
       /\ \A i \in (Len(head) + 1)..Len(id) : IsDigit(id[i])

\* the rows of the locator join for a canonical identifier
LocatorRows ==
    { r \in Autoclaved :
        r.msm_no = DigitsToInt(DropFirst(gcall.measurement_id,
                                         Len(MsmIdPrefixChars) + 1)) }

\* C13: an identifier that neither starts with temp-fid- nor is
\* temp-id-<digits> fails with BadRequest before any lookup and any fetch.
C13_MalformedIdIsBadRequest ==
    (GetResponded /\ ~IsFastpathId /\ ~IsCanonicalId) =>
        /\ gresp.status = 400
        /\ gresp.lookups = 0
        /\ gresp.fetches = <<>>

\* C14: a well-formed canonical identifier without a row in the locator
\* join fails with 404 and no fetch is issued.
C14_NoRowIsNotFound ==
    (GetResponded /\ IsCanonicalId /\ gcall.db = "ok" /\ LocatorRows = {}) =>
        /\ gresp.status = 404
        /\ gresp.body = Null
        /\ gresp.fetches = <<>>

\* temp-id-7 has no locator and was answered
C14_Witness ==
    /\ GetResponded
    /\ gcall.measurement_id = MsmIdPrefixChars \o <<"-", "7">>
    /\ gcall.db = "ok"
    /\ gresp.status = 404
    /\ gresp.lookups = 1

\* the range fetch of a canonical identifier gave a successful response
RangeFetched ==
    /\ GetResponded /\ ~IsFastpathId
    /\ Len(gresp.fetches) > 0
    /\ gcall.fetch.kind = "response" /\ gcall.fetch.status < 400

\* the locator whose frame was requested
FetchedRow == CHOOSE r \in Autoclaved : r.filename = gresp.fetches[1].path

\* C15: a successful range fetch whose body is shorter or longer than the
\* frame fails with the integrity error (RuntimeError), not with 404 and
\* not with a payload, after the one fetch.
C15_WrongLengthIsIntegrityError ==
    (RangeFetched /\ gcall.fetch.len # FetchedRow.frame_size) =>
        /\ gresp.status = 500 /\ gresp.error = "RuntimeError"
        /\ gresp.body = Null
        /\ Len(gresp.fetches) = 1

\* a body one byte longer than the frame, which would decompress to a
\* valid payload
C15_Witness ==
    /\ RangeFetched
    /\ gcall.fetch.len = FetchedRow.frame_size + 1
    /\ gcall.fetch.frame = Some(<<"x", "{", "}">>)
    /\ FetchedRow.intra_off = 1 /\ FetchedRow.intra_size = 2
    /\ gresp.error = "RuntimeError"

\* the frame arrived whole and was decompressed
FrameDecompressed ==
    /\ RangeFetched
    /\ gcall.fetch.len = FetchedRow.frame_size
    /\ gcall.fetch.frame # Null

\* the bytes [intra_off, intra_off + intra_size) of the frame, or none when
\* the frame ends before them
ExactSlice ==
    LET frame == Val(gcall.fetch.frame)
        r == FetchedRow
    IN IF r.intra_off + r.intra_size > Len(frame) THEN Null
       ELSE Some([ i \in 1..r.intra_size |-> frame[r.intra_off + i] ])

\* a payload as C16 wants it
GoodPayload(b) ==
    /\ Len(b) = FetchedRow.intra_size
    /\ Len(b) > 0
    /\ b[1] = "{"
    /\ b[Len(b)] = "}"

\* C16: a payload returned for a canonical identifier is the slice
\* [intra_off, intra_off + intra_size) of the decompressed frame, of length
\* intra_size, from "{" to "}"; when a check fails, the slice running past
\* the frame included, the call fails with the integrity error and
\* returns no payload.
C16_PayloadIsValidatedSlice ==
    /\ (GetResponded /\ ~IsFastpathId /\ gresp.status = 200) =>
          /\ FrameDecompressed
          /\ gresp.body = ExactSlice
          /\ GoodPayload(Val(gresp.body))
    /\ (FrameDecompressed /\ (ExactSlice = Null \/ ~GoodPayload(Val(ExactSlice)))) =>
          /\ gresp.status = 500 /\ gresp.error = "RuntimeError"
          /\ gresp.body = Null

\* a slice of the right length and first byte whose last byte is not "}"
C16_Witness ==
    /\ FrameDecompressed
    /\ gcall.fetch.frame = Some(<<"{", "x", "x">>)
    /\ FetchedRow.intra_off = 0 /\ FetchedRow.intra_size = 3
    /\ gresp.error = "RuntimeError"

\* the fetch of the fastpath document failed
FastpathFetchFailed ==
    \/ gcall.fetch.kind # "response"
    \/ gcall.fetch.status # 200
    \/ gcall.fetch.frame = Null

\* C17: for a temp-fid- identifier the document of the transaction id is
\* fetched whole; a non-200 response, a connection or fetch error and a
\* decompression error all fail as NotFound ("No measurement found"), and
\* no other error leaves this path.
C17_FastpathFailsAsNotFound ==
    (GetResponded /\ IsFastpathId) =>
        /\ gresp.lookups = 0
        /\ gresp.fetches =
              <<FastpathRequest(DropFirst(gcall.measurement_id,
                                          Len(FastpathPrefixChars)))>>
        /\ FastpathFetchFailed =>
              gresp.status = 404 /\ gresp.error = "No measurement found"
        /\ ~FastpathFetchFailed =>
              gresp.status = 200 /\ gresp.body = gcall.fetch.frame

(***************************************************************************)
(* Properties of the merged page: the input sentinel, repeated calls and   *)
(* the trimming of the per-store queries.                                  *)
(***************************************************************************)
\* the input of the store row(s) that a record's measurement_id names
SourceInputs(r) ==
    IF r.measurement_id[1] = MSM_ID_PREFIX
    THEN { m.input : m \in { x \in measurement : x.msm_no = r.measurement_id[3] } }
    ELSE { f.input : f \in { x \in fastpath : x.tid = r.measurement_id[2] } }

\* C18: the join sentinel (the empty string) is in no record of the page;
\* a record whose source row has no input is returned with input null.
C18_NoSentinelInOutput ==
    Answered =>
        \A i \in 1..Len(Results) :
            /\ Results[i].input # Some(INULL)
            /\ Null \in SourceInputs(Results[i]) => Results[i].input = Null

\* a page with a record without input, next to a record with one
C18_Witness ==
    /\ Answered
    /\ \E i, j \in 1..Len(Results) :
          /\ SourceInputs(Results[i]) = {Null}
          /\ Results[i].input = Null
          /\ Results[j].input = Some("u1")

\* C19: the same call issued again, with the stores unchanged, returns the
\* same records in the same order, also when rows tie on the ordering
\* column.
C19_SameCallSameResults ==
    [][(call' = call /\ resp.status = 200 /\ resp'.status = 200)
          => resp'.results = resp.results]_vars

\* the pages of the outer query over the two unbounded filtered streams
UnboundedRows(c) ==
    { Slice(s, c.offset, c.limit) :
        s \in Ordered(FullOuterJoin(FpFiltered(c), MrFiltered(c)),
                      OrderBy(c), Lower(c.order) = "desc") }

\* C20: the page made from the two streams cut to offset + limit rows is
\* a page that the join of the two uncut streams gives under the same
\* order, offset and limit.
C20_TrimmingIsHarmless ==
    Answered =>
        \E rows \in UnboundedRows(call) :
            resp.results = Answer(call, rows).results

(***************************************************************************)
(* Properties of the deduplication.                                        *)
(***************************************************************************)
\* the (report_id, input) of a row of the joined stream
RowKey(j) == <<Merger(j).report_id, Merger(j).input>>

\* the positions of the rows that are the first of their key
FirstPositions(rows) ==
    { i \in 1..Len(rows) : \A j \in 1..(i - 1) : RowKey(rows[j]) # RowKey(rows[i]) }

\* the subsequence of the rows at the positions I
SubsequenceAt(rows, I) ==
    [ k \in 1..Cardinality(I) |->
        rows[CHOOSE i \in I : Cardinality({ j \in I : j <= i }) = k] ]

\* the rows are in the order of the ordering column of the call
SortedRows(rows) ==
    \A i, j \in 1..Len(rows) :
        i < j => ~Before(Merger(rows[j])[OrderBy(call)],
                         Merger(rows[i])[OrderBy(call)],
                         Lower(call.order) = "desc")

\* the records are the rows, one for one
RecordsOf(rows) == ReplaceINULL(TmpResults(rows))

\* C21: the page is the subsequence of the first rows of each key of the
\* ordered, truncated joined stream, in the order of the stream, and so it
\* is sorted by the ordering column in the requested direction.
C21_FirstOccurrencesInOrder ==
    Answered =>
        /\ \E rows \in QueryRows(call) :
              LET kept == SubsequenceAt(rows, FirstPositions(rows))
              IN /\ Results = RecordsOf(kept)
                 /\ SortedRows(kept)
        /\ OrderBy(call) = "measurement_start_time" =>
              \A i, j \in 1..Len(Results) :
                  i < j => ~Before(Results[j].measurement_start_time,
                                   Results[i].measurement_start_time,
                                   Lower(call.order) = "desc")

\* three rows were selected, the second row of one key was dropped and
\* two records of different times are left, the later one first
C21_Witness ==
    /\ Answered
    /\ call.limit = 3 /\ call.order = "desc"
    /\ call.order_by = Some("measurement_start_time")
    /\ Cardinality(fastpath) + Cardinality(measurement) >= 3
    /\ \A rows \in QueryRows(call) : Len(rows) = 3
    /\ Len(Results) = 2
    /\ Rank(Results[1].measurement_start_time) > Rank(Results[2].measurement_start_time)

(***************************************************************************)
(* Properties of the requests of get_measurement and of its lookup query.  *)
(***************************************************************************)
\* the locator lookup of a canonical identifier found a row
LocatorFound ==
    /\ GetResponded
    /\ IsCanonicalId
    /\ gcall.db = "ok"
    /\ LocatorRows # {}

\* C22: when the lookup finds a row, exactly one fetch is issued, for the
\* bytes frame_off .. frame_off + frame_size - 1 of the row's archive file,
\* and whatever comes back no second fetch follows.
C22_OneRangeFetch ==
    LocatorFound =>
        /\ Len(gresp.fetches) = 1
        /\ \E r \in LocatorRows :
              /\ gresp.fetches[1].path = r.filename
              /\ gresp.fetches[1].range =
                    Some(<<r.frame_off, r.frame_off + r.frame_size - 1>>)

\* the archive answered 404 to the range request for the frame at 10..13
C22_Witness ==
    /\ LocatorFound
    /\ gcall.fetch.kind = "response" /\ gcall.fetch.status = 404
    /\ gresp.status = 500 /\ gresp.error = "HTTPError"
    /\ gresp.fetches[1].range = Some(<<10, 13>>)

\* the lookup query of get_measurement was issued
LookupIssued == GetResponded /\ gresp.lookups > 0

\* C23: a store query canceled on timeout ends in the timeout error (504),
\* the locator lookup of get_measurement as well as the listing query.
C23_CanceledLookupIs504 ==
    /\ (LookupIssued /\ gcall.db = "QueryCanceledError") => gresp.status = 504
    /\ (QueryFailed /\ call.db = "QueryCanceledError") => resp.status = 504
====
